---- MODULE Spec2Model ----
(***************************************************************************)
(* Model of launchdarkly-flag-forms: the useLDFlagSchema hook, its         *)
(* useMemo cells, the zod and yup metadata extractors and schema           *)
(* transformers, and the flag helpers.                                     *)
(*                                                                         *)
(* JavaScript values are named by strings ("true", "false", "null",        *)
(* "undefined", "0", "dark"), so that boolean coercion (!!v) and the nil   *)
(* check (isNil) are conversions the model computes.  A Flags object is a  *)
(* function from flag names to cells; the cell NoKey says that the object  *)
(* has no own property of that name.                                       *)
(***************************************************************************)
EXTENDS Integers, Sequences, FiniteSets, TLC

\* ------------------------------------------------------------------ bounds
\* Number of renders of one hook instance that a behaviour follows.
MaxCalls == 2

\* ------------------------------------------------------------- JS values
undefined == "undefined"
null == "null"
NoKey == "<no key>"

FlagNames == {"f1", "f2"}

\* FlagValue = boolean | number | Date | string | undefined | null | Array
FlagValue == {"true", "false", "null", "undefined", "0", "", "[]", "dark"}

\* !!v : the falsy JavaScript values among FlagValue
Truthy(v) == v \notin {"false", "null", "undefined", "0", "", "NaN"}

isNil(v) == v = null \/ v = undefined

\* flags[k] : an absent own property reads as undefined
Get(flags, k) == IF flags[k] = NoKey THEN undefined ELSE flags[k]

\* an absent metadata key (meta.xFlag === undefined)
None == "none"

\* a metadata key used as a condition (meta.xFlag && ..., field.xFlag ? ... : ...)
Declared(k) == k \notin {None, ""}

\* ---------------------------------------------------------- field objects
\* A field definition of an object schema: its .meta() record, whether it
\* accepts a missing value (optional), its default, and whether it is the
\* caller's own object ("orig") or one built by a transformer ("new").
\* `flag` is the key the README's Meta Properties table documents.
NoMeta ==
  [visibilityFlag |-> None, disabledFlag |-> None, readonlyFlag |-> None,
   requiredFlag |-> None, omitFlag |-> None, defaultValueFlag |-> None,
   flag |-> None]

\* the operations a schema type of zod or yup exposes ('optional' in zodShape,
\* typeof field.meta === 'function', fieldSchema.clone())
SchemaOps == {"meta", "clone", "optional", "required", "default"}
\* yup's Lazy has meta, clone and optional but neither required nor default;
\* yup's Reference (yup.ref) has none of them; a type without .meta (zod 3)
\* has the others
LazyOps == {"meta", "clone", "optional"}
ReferenceOps == {}
NoMetaOps == SchemaOps \ {"meta"}

\* what a call of a missing method raises
TypeError == [thrown |-> "TypeError"]

Field(n, m, opt, d) ==
  [name |-> n, meta |-> m, optional |-> opt, default |-> d, ident |-> "orig",
   ops |-> SchemaOps]

\* fixture field definitions
Bare(n) == Field(n, NoMeta, FALSE, undefined)
Ui(n) ==
  Field(n, [NoMeta EXCEPT !.visibilityFlag = "f1", !.disabledFlag = "f2",
                          !.readonlyFlag = "f1", !.defaultValueFlag = "f1"],
        FALSE, undefined)
Gated(n) ==
  Field(n, [NoMeta EXCEPT !.omitFlag = "f2", !.requiredFlag = "f1",
                          !.defaultValueFlag = "f1"],
        TRUE, "light")
Req(n) ==
  Field(n, [NoMeta EXCEPT !.requiredFlag = "f1", !.visibilityFlag = "f2"],
        FALSE, undefined)

\* --------------------------------------------------------- schema objects
\* kind: what the value is (typeof, null apart); zodObject: schema instanceof
\* z.ZodObject; describe / fieldsProp: the value has a `describe` / a `fields`
\* member; shape: the top-level fields in declaration order (zod's .shape,
\* yup's .fields).
Value(k, z, d, fp, sh) ==
  [kind |-> k, zodObject |-> z, describe |-> d, fieldsProp |-> fp, shape |-> sh]
ZodObject(sh) == Value("object", TRUE, TRUE, FALSE, sh)
YupObject(sh) == Value("object", FALSE, TRUE, TRUE, sh)
PlainObject == Value("object", FALSE, FALSE, FALSE, << >>)
\* an object with a `fields` member but no `describe`: neither dialect
FieldsOnlyObject(sh) == Value("object", FALSE, FALSE, TRUE, sh)

ShapeA == << Bare("a"), Ui("b"), Gated("c") >>
ShapeB == << Req("c"), Bare("b"), Gated("d") >>

Schemas ==
  {ZodObject(ShapeA), ZodObject(ShapeB), YupObject(ShapeA), YupObject(ShapeB),
   FieldsOnlyObject(ShapeA)}

\* the schemas of the single-render exploration: one or two fields, the
\* first with any one metadata key set, or an omitFlag beside another flag
WideMetas ==
  {NoMeta}
  \cup {[NoMeta EXCEPT ![k] = "f1"] : k \in DOMAIN NoMeta}
  \cup {[NoMeta EXCEPT !.omitFlag = "f1", !.requiredFlag = "f2"],
        [NoMeta EXCEPT !.omitFlag = "f2", !.defaultValueFlag = "f1"],
        [NoMeta EXCEPT !.requiredFlag = "f2", !.defaultValueFlag = "f1"]}
\* a field of another type: one that lacks some of the operations
Typed(fd, ops) == [fd EXCEPT !.ops = ops]
WideFields(n) ==
  {Field(n, m, opt, d) : m \in WideMetas, opt \in BOOLEAN, d \in {undefined, "light"}}
  \cup {Typed(Field(n, m, FALSE, undefined), LazyOps) : m \in WideMetas}
  \cup {Typed(Field(n, NoMeta, opt, undefined), ops) :
          opt \in BOOLEAN, ops \in {NoMetaOps, ReferenceOps}}
WideShapes ==
  {<< x >> : x \in WideFields("a")}
  \cup {<< x, y >> : x \in WideFields("a"),
                     y \in {Field("b", NoMeta, TRUE, "light"), Gated("b"),
                            Typed(Bare("b"), ReferenceOps)}}
\* values that detectSchemaType is asked about: objects with every
\* combination of the three marks, and null, undefined, a string, and a
\* function that has both members
DetectProbes ==
  {Value("object", z, d, fp, ShapeA) : z, d, fp \in BOOLEAN}
  \cup {Value(k, FALSE, FALSE, FALSE, << >>) : k \in {"null", "undefined", "string"}}
  \cup {Value("function", FALSE, TRUE, TRUE, ShapeA)}
WideSchemas ==
  {ZodObject(sh) : sh \in WideShapes} \cup {YupObject(sh) : sh \in WideShapes}
  \cup DetectProbes

\* ----------------------------------------------------------- flag objects
Cell == FlagValue \cup {NoKey}

\* the caller's base flags and override flags of the explored renders
BaseFlags ==
  {f \in [FlagNames -> Cell] :
     f["f1"] \in {NoKey, "true", "null", "dark"} /\ f["f2"] \in {NoKey, "true", "0"}}
OverrideMaps ==
  {f \in [FlagNames -> Cell] :
     f["f1"] \in {NoKey, "false", "undefined"} /\ f["f2"] \in {NoKey, "true"}}

\* overrideFlags?: << >> when the argument is absent, << o >> when given
Absent == << >>
Overrides == {Absent} \cup {<< o >> : o \in OverrideMaps}

\* the flag objects of the single-render exploration: every kind of value
\* for f1 in the base and in the override
WideFlags ==
  {f \in [FlagNames -> Cell] : f["f2"] \in {NoKey, "true", "false"}}
WideOverrides ==
  {Absent} \cup {<< o >> : o \in {f \in [FlagNames -> Cell] : f["f2"] = NoKey}}

EmptyFlags == [k \in FlagNames |-> NoKey]

\* ------------------------------------------------------------------ utils
\* mutant: the spread written the other way round, { ...overrideFlags, ...flags }
Merge_baseWins(f, o) ==
  LET ov == IF Len(o) = 0 THEN EmptyFlags ELSE o[1]
  IN  [k \in FlagNames |-> IF f[k] # NoKey THEN f[k] ELSE ov[k]]

\* mutant: an override that is undefined or null does not replace the base
Merge_skipsNil(f, o) ==
  LET ov == IF Len(o) = 0 THEN EmptyFlags ELSE o[1]
  IN  [k \in FlagNames |-> IF ov[k] \notin {NoKey, undefined, null} THEN ov[k] ELSE f[k]]

\* { ...flags, ...(overrideFlags ?? {}) }
Merge(f, o) ==
  LET ov == IF Len(o) = 0 THEN EmptyFlags ELSE o[1]
  IN  [k \in FlagNames |-> IF ov[k] # NoKey THEN ov[k] ELSE f[k]]

\* mutant: yup recognised by its `fields` member alone
detectSchemaType_fieldsAlone(schema) ==
  IF schema.zodObject THEN "zod"
  ELSE IF schema.fieldsProp THEN "yup"
  ELSE undefined

\* mutant: the member test made before the instanceof test
detectSchemaType_membersFirst(schema) ==
  IF schema.kind = "object" /\ schema.describe /\ schema.fieldsProp THEN "yup"
  ELSE IF schema.zodObject THEN "zod"
  ELSE undefined

detectSchemaType(schema) ==
  IF schema.zodObject THEN "zod"
  ELSE IF schema.kind = "object" /\ schema.describe /\ schema.fieldsProp THEN "yup"
  ELSE undefined

\* ------------------------------------------------------------ extractors
\* typeof field.meta === 'function' ? field.meta() || {} : {}  (yup)
\* schema?.meta?.() || {}  (zod)
metaOf(field) == IF "meta" \in field.ops THEN field.meta ELSE NoMeta

extractFlaggedSchemaFromZod(zodSchema) ==
  [i \in 1..Len(zodSchema.shape) |->
     LET meta == metaOf(zodSchema.shape[i])
     IN  [name |-> zodSchema.shape[i].name,
          visibilityFlag |-> meta.visibilityFlag,
          disabledFlag |-> meta.disabledFlag,
          readonlyFlag |-> meta.readonlyFlag,
          requiredFlag |-> meta.requiredFlag,
          omitFlag |-> None,
          defaultValueFlag |-> meta.defaultValueFlag]]

\* mutant: only the fields that carry metadata are listed
extractFlaggedSchemaFromYup_flaggedOnly(yupSchema) ==
  LET sh == SelectSeq(yupSchema.shape, LAMBDA fd : "meta" \in fd.ops)
  IN  [i \in 1..Len(sh) |->
         [name |-> sh[i].name,
          visibilityFlag |-> sh[i].meta.visibilityFlag,
          disabledFlag |-> sh[i].meta.disabledFlag,
          readonlyFlag |-> sh[i].meta.readonlyFlag,
          requiredFlag |-> sh[i].meta.requiredFlag,
          omitFlag |-> sh[i].meta.omitFlag,
          defaultValueFlag |-> sh[i].meta.defaultValueFlag]]

extractFlaggedSchemaFromYup(yupSchema) ==
  [i \in 1..Len(yupSchema.shape) |->
     LET meta == metaOf(yupSchema.shape[i])
     IN  [name |-> yupSchema.shape[i].name,
          visibilityFlag |-> meta.visibilityFlag,
          disabledFlag |-> meta.disabledFlag,
          readonlyFlag |-> meta.readonlyFlag,
          requiredFlag |-> meta.requiredFlag,
          omitFlag |-> meta.omitFlag,
          defaultValueFlag |-> meta.defaultValueFlag]]

\* ---------------------------------------------- schema library operations
\* mutant: the optional state written into the caller's field object
zodOptional_inPlace(f) == [f EXCEPT !.optional = TRUE]

\* zod: .optional() and .default(v) return a new wrapper instance; metadata
\* is registered per instance, so the wrapper's .meta() is empty.
zodOptional(f) == [f EXCEPT !.optional = TRUE, !.meta = NoMeta, !.ident = "new"]
zodDefault(f, v) == [f EXCEPT !.default = v, !.meta = NoMeta, !.ident = "new"]
\* yup: .clone(), .required(), .notRequired() return a copy that keeps the meta.
\* mutant: the field used as it is, without clone()
yupClone_sameObject(f) == f

yupClone(f) == IF "clone" \in f.ops THEN [f EXCEPT !.ident = "new"] ELSE TypeError
yupRequired(f) == [f EXCEPT !.optional = FALSE, !.ident = "new"]
yupNotRequired(f) == [f EXCEPT !.optional = TRUE, !.ident = "new"]

\* ----------------------------------------------------------- transformers
\* mutant: the inverted omit test, meta.omitFlag && !flags[meta.omitFlag]
zodOmits_inverted(f, flags) ==
  Declared(f.meta.omitFlag) /\ ~Truthy(Get(flags, f.meta.omitFlag))

\* mutant: the earlier inverted test without its guard, !flags[meta.omitFlag]
zodOmits_unguarded(f, flags) ==
  ~Declared(f.meta.omitFlag) \/ ~Truthy(Get(flags, f.meta.omitFlag))

\* mutant: a hidden field is dropped from the schema as well
zodOmits_hidden(f, flags) ==
  \/ Declared(metaOf(f).omitFlag) /\ Truthy(Get(flags, metaOf(f).omitFlag))
  \/ Declared(metaOf(f).visibilityFlag) /\ ~Truthy(Get(flags, metaOf(f).visibilityFlag))

\* the omit test of the zod loop: meta.omitFlag && flags[meta.omitFlag]
zodOmits(f, flags) ==
  Declared(metaOf(f).omitFlag) /\ Truthy(Get(flags, metaOf(f).omitFlag))

\* mutant: the required step without the test that the key is declared
zodShape_noDeclaredTest(fieldSchema, flags) ==
  IF \/ ~Declared(fieldSchema.meta.requiredFlag)
     \/ ~Truthy(Get(flags, fieldSchema.meta.requiredFlag))
  THEN zodOptional(fieldSchema) ELSE fieldSchema

\* mutant: the default step without the test that the type has .default
zodShape_noCapabilityTest(fieldSchema, flags) ==
  LET meta == fieldSchema.meta
      s1 == IF /\ Declared(meta.requiredFlag)
               /\ ~isNil(Get(flags, meta.requiredFlag))
               /\ "optional" \in fieldSchema.ops
               /\ ~Truthy(Get(flags, meta.requiredFlag))
            THEN zodOptional(fieldSchema) ELSE fieldSchema
  IN  IF Declared(meta.defaultValueFlag) /\ ~isNil(Get(flags, meta.defaultValueFlag))
      THEN zodDefault(s1, Get(flags, meta.defaultValueFlag)) ELSE s1

\* one retained field of the zod loop body
zodShape(fieldSchema, flags) ==
  LET meta == metaOf(fieldSchema)
      s1 == IF /\ Declared(meta.requiredFlag)
               /\ ~isNil(Get(flags, meta.requiredFlag))
               /\ "optional" \in fieldSchema.ops
               /\ ~Truthy(Get(flags, meta.requiredFlag))
            THEN zodOptional(fieldSchema) ELSE fieldSchema
      s2 == IF /\ Declared(meta.defaultValueFlag)
               /\ ~isNil(Get(flags, meta.defaultValueFlag))
               /\ "default" \in s1.ops
            THEN zodDefault(s1, Get(flags, meta.defaultValueFlag)) ELSE s1
  IN  s2

RECURSIVE zodLoop(_, _)
zodLoop(sh, flags) ==
  IF sh = << >> THEN << >>
  ELSE IF zodOmits(Head(sh), flags) THEN zodLoop(Tail(sh), flags)
  ELSE << zodShape(Head(sh), flags) >> \o zodLoop(Tail(sh), flags)

\* mutant: each retained field put in front of the ones already collected
transformZodSchemaWithValues_prepending(base, flags) ==
  LET newShape == zodLoop(base.shape, flags)
  IN  ZodObject([i \in 1..Len(newShape) |-> newShape[Len(newShape) + 1 - i]])

transformZodSchemaWithValues(base, flags) == ZodObject(zodLoop(base.shape, flags))

\* the omit test of the yup loop
yupOmits(f, flags) ==
  Declared(metaOf(f).omitFlag) /\ Truthy(Get(flags, metaOf(f).omitFlag))

\* mutant: the toggle without the nil test, as in the earlier yup variant
yupShape_noNilCheck(fieldSchema, flags) ==
  LET meta == fieldSchema.meta
      c == yupClone(fieldSchema)
  IN  IF Declared(meta.requiredFlag) /\ "required" \in c.ops
      THEN IF Truthy(Get(flags, meta.requiredFlag)) THEN yupRequired(c) ELSE yupNotRequired(c)
      ELSE c

\* one retained field of the yup loop body
yupShape(fieldSchema, flags) ==
  LET meta == metaOf(fieldSchema)
      c == yupClone(fieldSchema)
  IN  IF c = TypeError THEN TypeError
      ELSE IF /\ Declared(meta.requiredFlag)
              /\ ~isNil(Get(flags, meta.requiredFlag))
              /\ "required" \in c.ops
      THEN IF Truthy(Get(flags, meta.requiredFlag)) THEN yupRequired(c) ELSE yupNotRequired(c)
      ELSE c

RECURSIVE yupLoop(_, _)
yupLoop(sh, flags) ==
  IF sh = << >> THEN << >>
  ELSE IF yupOmits(Head(sh), flags) THEN yupLoop(Tail(sh), flags)
  ELSE << yupShape(Head(sh), flags) >> \o yupLoop(Tail(sh), flags)

\* the loop ends at the first field whose clone() raises
transformYupSchemaWithValues(base, flags) ==
  LET newShape == yupLoop(base.shape, flags)
  IN  IF \E i \in 1..Len(newShape) : newShape[i] = TypeError THEN TypeError
      ELSE YupObject(newShape)

\* ------------------------------------------------------- state map rules
\* mutants of the map rules: a nil flag value leaves the field visible; the
\* disabled test inverted; the default value coerced to a boolean
visibilityOf_nilVisible(field, flags) ==
  IF Declared(field.visibilityFlag)
  THEN isNil(Get(flags, field.visibilityFlag)) \/ Truthy(Get(flags, field.visibilityFlag))
  ELSE TRUE
disabledOf_inverted(field, flags) ==
  IF Declared(field.disabledFlag) THEN ~Truthy(Get(flags, field.disabledFlag)) ELSE FALSE
defaultValueOf_coerced(field, flags) ==
  IF ~Declared(field.defaultValueFlag) THEN undefined
  ELSE IF Truthy(Get(flags, field.defaultValueFlag)) THEN "true" ELSE "false"

\* the entry of each map for one metadata record (the bodies of fields.map)
visibilityOf(field, flags) ==
  IF Declared(field.visibilityFlag) THEN Truthy(Get(flags, field.visibilityFlag)) ELSE TRUE
disabledOf(field, flags) ==
  IF Declared(field.disabledFlag) THEN Truthy(Get(flags, field.disabledFlag)) ELSE FALSE
readOnlyOf(field, flags) ==
  IF Declared(field.readonlyFlag) THEN Truthy(Get(flags, field.readonlyFlag)) ELSE TRUE
requiredOf(field, flags) ==
  IF Declared(field.requiredFlag) THEN Truthy(Get(flags, field.requiredFlag)) ELSE FALSE
defaultValueOf(field, flags) ==
  IF Declared(field.defaultValueFlag) THEN Get(flags, field.defaultValueFlag) ELSE undefined

\* Object.fromEntries(fields.map(field => [field.name, entry])): a later
\* entry of the same name replaces an earlier one
LastNamed(fs, n) == fs[CHOOSE i \in 1..Len(fs) :
                         fs[i].name = n /\ \A j \in (i+1)..Len(fs) : fs[j].name # n]
FieldNamesOf(fs) == {fs[i].name : i \in 1..Len(fs)}

\* mutant: the maps built over the fields of the transformed schema
MapKeys_postOmission(fs, schema) ==
  {n \in FieldNamesOf(fs) : \E i \in 1..Len(schema.shape) : schema.shape[i].name = n}

\* the keys the five maps of one result are built over
MapKeys(fs, schema) == FieldNamesOf(fs)

\* the body of the `value` memo
resolveValue(fs, flags, schema) ==
  [visibilityMap |-> [n \in MapKeys(fs, schema) |-> visibilityOf(LastNamed(fs, n), flags)],
   disabledMap |-> [n \in MapKeys(fs, schema) |-> disabledOf(LastNamed(fs, n), flags)],
   readOnlyMap |-> [n \in MapKeys(fs, schema) |-> readOnlyOf(LastNamed(fs, n), flags)],
   requiredMap |-> [n \in MapKeys(fs, schema) |-> requiredOf(LastNamed(fs, n), flags)],
   defaultValueMap |-> [n \in MapKeys(fs, schema) |-> defaultValueOf(LastNamed(fs, n), flags)],
   schema |-> schema]

\* the bodies of the `fields` and `transformedSchema` memos
extractFields(type, schema) ==
  CASE type = "zod" -> extractFlaggedSchemaFromZod(schema)
    [] type = "yup" -> extractFlaggedSchemaFromYup(schema)
    [] OTHER -> << >>

transformSchema(type, schema, flags) ==
  CASE type = "zod" -> transformZodSchemaWithValues(schema, flags)
    [] type = "yup" -> transformYupSchemaWithValues(schema, flags)
    [] OTHER -> schema

\* --------------------------------------------------------------- the hook
\* The first instance of useLDFlagSchema.  schema, flags, overrideFlags are
\* the arguments of its latest render; updatedFlags, schemaType, fields,
\* transformedSchema and value are its useMemo cells; recomputed says whether
\* its latest render computed any cell anew; raised says whether its latest
\* call raised instead of returning; calls counts renders.  peer is a
\* second, independently mounted instance (a record of the same cells) and
\* trace lists the arguments each instance was rendered with.
VARIABLES mounted, schema, flags, overrideFlags,
          updatedFlags, schemaType, fields, transformedSchema, value, calls,
          recomputed, raised, peer, trace

vars == << mounted, schema, flags, overrideFlags,
           updatedFlags, schemaType, fields, transformedSchema, value, calls,
           recomputed, raised, peer, trace >>

\* the cells of an instance before its first render
InitCells ==
  [mounted |-> FALSE, schema |-> PlainObject, flags |-> EmptyFlags,
   overrideFlags |-> Absent, updatedFlags |-> EmptyFlags, schemaType |-> undefined,
   fields |-> << >>, transformedSchema |-> PlainObject,
   value |-> resolveValue(<< >>, EmptyFlags, PlainObject), calls |-> 0,
   recomputed |-> FALSE, raised |-> FALSE]

\* the cells of the first instance
Self ==
  [mounted |-> mounted, schema |-> schema, flags |-> flags,
   overrideFlags |-> overrideFlags, updatedFlags |-> updatedFlags,
   schemaType |-> schemaType, fields |-> fields,
   transformedSchema |-> transformedSchema, value |-> value, calls |-> calls,
   recomputed |-> recomputed, raised |-> raised]

Init ==
  /\ mounted = FALSE
  /\ schema = PlainObject
  /\ flags = EmptyFlags
  /\ overrideFlags = Absent
  /\ updatedFlags = EmptyFlags
  /\ schemaType = undefined
  /\ fields = << >>
  /\ transformedSchema = PlainObject
  /\ value = resolveValue(<< >>, EmptyFlags, PlainObject)
  /\ calls = 0
  /\ recomputed = FALSE
  /\ raised = FALSE
  /\ peer = InitCells
  /\ trace = << << >>, << >> >>

\* mutant: the cells kept once per module, so every instance reads the first
\* instance's cells
InstanceCells_shared(i) == Self

\* useMemo keeps its cells per mounted instance of the hook
InstanceCells(i) == IF i = 1 THEN Self ELSE peer

\* mutant: a cell without a dependency list, computed on every render
updatedFlagsDeps_none(sameS, sameF, sameO) == TRUE

\* The dependency lists of the five useMemo cells.  Each is TRUE when React
\* recomputes the cell: on the first render, or when a dependency is not
\* Object.is-equal to its value at the previous render.  sameS, sameF, sameO
\* say whether the argument is the very object passed last time.
updatedFlagsDeps(sameS, sameF, sameO) == ~sameF \/ ~sameO
schemaTypeDeps(sameS, sameF, sameO) == ~sameS
fieldsDeps(typeChanged, sameS) == typeChanged
\* mutant: the dependency list without updatedFlags
transformedSchemaDeps_schemaOnly(typeChanged, sameS, flagsChanged) ==
  typeChanged \/ ~sameS

transformedSchemaDeps(typeChanged, sameS, flagsChanged) ==
  typeChanged \/ ~sameS \/ flagsChanged
valueDeps(fieldsChanged, flagsChanged, schemaChanged) ==
  fieldsChanged \/ flagsChanged \/ schemaChanged

\* An argument can be the very object of the previous render of the instance
\* with cells c only if it has the same content (arguments are not mutated);
\* undefined is always identical to undefined.
SameOkOf(c, s, f, o, sameS, sameF, sameO) ==
  /\ sameS => c.mounted /\ s = c.schema
  /\ sameF => c.mounted /\ f = c.flags
  /\ sameO => c.mounted /\ o = c.overrideFlags
  /\ (c.mounted /\ o = Absent /\ c.overrideFlags = Absent) => sameO

SameOk(s, f, o, sameS, sameF, sameO) == SameOkOf(Self, s, f, o, sameS, sameF, sameO)

\* the body of the hook: the cells of an instance after a render with these
\* arguments, c being its cells before
RenderOf(c, s, f, o, sameS, sameF, sameO) ==
  LET first == ~c.mounted
      flagsChanged == first \/ updatedFlagsDeps(sameS, sameF, sameO)
      uf == IF flagsChanged THEN Merge(f, o) ELSE c.updatedFlags
      stRun == first \/ schemaTypeDeps(sameS, sameF, sameO)
      st == IF stRun THEN detectSchemaType(s) ELSE c.schemaType
      typeChanged == first \/ st # c.schemaType
      fieldsChanged == first \/ fieldsDeps(typeChanged, sameS)
      fs == IF fieldsChanged THEN extractFields(st, s) ELSE c.fields
      schemaChanged == first \/ transformedSchemaDeps(typeChanged, sameS, flagsChanged)
      ts == IF schemaChanged THEN transformSchema(st, s, uf) ELSE c.transformedSchema
      valueChanged == first \/ valueDeps(fieldsChanged, flagsChanged, schemaChanged)
  IN  IF schemaChanged /\ ts = TypeError
      THEN \* the memo callback raised: the call returns nothing and React
           \* keeps no cell of the abandoned render
           [c EXCEPT !.calls = c.calls + 1, !.raised = TRUE] @@ [stages |-> {}]
      ELSE
      [mounted |-> TRUE, schema |-> s, flags |-> f, overrideFlags |-> o,
       updatedFlags |-> uf, schemaType |-> st, fields |-> fs, transformedSchema |-> ts,
       value |-> IF valueChanged THEN resolveValue(fs, uf, ts) ELSE c.value,
       calls |-> c.calls + 1,
       raised |-> FALSE,
       recomputed |-> flagsChanged \/ stRun \/ fieldsChanged \/ schemaChanged
                        \/ valueChanged,
       stages |-> {n \in {"updatedFlags"} : flagsChanged}
                  \cup {n \in {"schemaType"} : stRun}
                  \cup {n \in {"fields"} : fieldsChanged}
                  \cup {n \in {"transformedSchema"} : schemaChanged}
                  \cup {n \in {"value"} : valueChanged}]

Render(s, f, o, sameS, sameF, sameO) ==
  RenderOf(InstanceCells(1), s, f, o, sameS, sameF, sameO)

\* a render of the first instance
useLDFlagSchema(s, f, o, sameS, sameF, sameO) ==
  /\ calls < MaxCalls
  /\ SameOk(s, f, o, sameS, sameF, sameO)
  /\ \E r \in {Render(s, f, o, sameS, sameF, sameO)} :
         /\ updatedFlags' = r.updatedFlags
         /\ schemaType' = r.schemaType
         /\ fields' = r.fields
         /\ transformedSchema' = r.transformedSchema
         /\ value' = r.value
         /\ recomputed' = r.recomputed
         /\ raised' = r.raised
         /\ mounted' = r.mounted
         /\ schema' = r.schema
         /\ flags' = r.flags
         /\ overrideFlags' = r.overrideFlags
         /\ calls' = r.calls

\* one mounted instance, rendered again and again
Next ==
  /\ calls < MaxCalls
  /\ \E s \in Schemas, f \in BaseFlags, o \in Overrides, sameS, sameF, sameO \in BOOLEAN :
       /\ useLDFlagSchema(s, f, o, sameS, sameF, sameO)
       /\ UNCHANGED << peer, trace >>

Spec == Init /\ [][Next]_vars

\* ---- one instance, mounted once with any schema and flags of the wide
\* sets, then rendered once more with the schema the hook returned and the
\* same flag objects; trace keeps the arguments of both renders
Mount(s, f, o) ==
  /\ ~mounted
  /\ calls = 0
  /\ useLDFlagSchema(s, f, o, FALSE, FALSE, FALSE)
  /\ trace' = [trace EXCEPT ![1] = Append(@, [schema |-> s, flags |-> f, overrideFlags |-> o])]
  /\ UNCHANGED peer

Retransform ==
  /\ mounted
  /\ calls = 1
  /\ schemaType \in {"zod", "yup"}
  /\ useLDFlagSchema(value.schema, flags, overrideFlags, FALSE, TRUE, TRUE)
  /\ trace' = [trace EXCEPT ![1] = Append(@, [schema |-> value.schema, flags |-> flags,
                                               overrideFlags |-> overrideFlags])]
  /\ UNCHANGED peer

NextWide ==
  \/ /\ ~mounted
     /\ calls = 0
     /\ \E s \in WideSchemas, f \in WideFlags, o \in WideOverrides : Mount(s, f, o)
  \/ Retransform

SpecWide == Init /\ [][NextWide]_vars

\* ---- two instances of the hook, mounted by different components and
\* rendered in any interleaving; trace keeps the arguments of every render
TwoSchemas == {ZodObject(ShapeA), ZodObject(ShapeB), YupObject(ShapeB)}
TwoFlags == {EmptyFlags, [k \in FlagNames |-> "true"]}

CallFirst(s, f, o, sameS, sameF, sameO) ==
  /\ useLDFlagSchema(s, f, o, sameS, sameF, sameO)
  /\ trace' = [trace EXCEPT ![1] = Append(@, [schema |-> s, flags |-> f, overrideFlags |-> o])]
  /\ UNCHANGED peer

CallPeer(s, f, o, sameS, sameF, sameO) ==
  /\ peer.calls < MaxCalls
  /\ SameOkOf(peer, s, f, o, sameS, sameF, sameO)
  /\ \E r \in {RenderOf(InstanceCells(2), s, f, o, sameS, sameF, sameO)} :
       peer' = [k \in DOMAIN InitCells |-> r[k]]
  /\ trace' = [trace EXCEPT ![2] = Append(@, [schema |-> s, flags |-> f, overrideFlags |-> o])]
  /\ UNCHANGED << mounted, schema, flags, overrideFlags, updatedFlags, schemaType,
                  fields, transformedSchema, value, calls, recomputed, raised >>

NextTwo ==
  \/ /\ calls < MaxCalls
     /\ \E s \in TwoSchemas, f \in TwoFlags, sameS, sameF, sameO \in BOOLEAN :
          CallFirst(s, f, Absent, sameS, sameF, sameO)
  \/ /\ peer.calls < MaxCalls
     /\ \E s \in TwoSchemas, f \in TwoFlags, sameS, sameF, sameO \in BOOLEAN :
          CallPeer(s, f, Absent, sameS, sameF, sameO)

SpecTwo == Init /\ [][NextTwo]_vars

\* ================================================================ claims
\* What the claims say, stated without the operators above.
\* the JavaScript values that coerce to false
Falsy == {"false", "null", "undefined", "0", "", "NaN"}
Nil == {"null", "undefined"}

\* the value of flag k in { ...flags, ...overrideFlags } for flag objects f, o
SpreadValue(f, o, k) ==
  LET c == IF Len(o) = 1 /\ o[1][k] # NoKey THEN o[1][k] ELSE f[k]
  IN  IF c = NoKey THEN "undefined" ELSE c

\* the merged flag value of the latest render
MergedValue(k) == SpreadValue(flags, overrideFlags, k)

Dialects == {"zod", "yup"}
NamesIn(sh) == {sh[i].name : i \in 1..Len(sh)}

SpreadObject(f, o) ==
  [k \in FlagNames |-> IF Len(o) = 1 /\ o[1][k] # NoKey THEN o[1][k] ELSE f[k]]

\* C3: every render, from any state of the hook and with any flags and
\* overrideFlags, returns the maps and transformed schema that a render from
\* the same state returns for the merged object { ...flags, ...overrideFlags }
\* (a new object) and no overrides; an absent override acts as an empty one.
C3_OverrideAsMerged ==
  [][value' = Render(schema', SpreadObject(flags', overrideFlags'), Absent,
                     FALSE, FALSE, mounted /\ overrideFlags = Absent).value]_vars

\* an override replaces a base key and adds a key the base lacks, and the
\* result shows the override's value
C3_Witness ==
  /\ mounted
  /\ overrideFlags # Absent
  /\ flags["f1"] = "true" /\ overrideFlags[1]["f1"] = "false"
  /\ flags["f2"] = NoKey /\ overrideFlags[1]["f2"] = "true"
  /\ \E i \in 1..Len(fields) :
       /\ fields[i].visibilityFlag = "f1"
       /\ fields[i].disabledFlag = "f2"
       /\ value.visibilityMap[fields[i].name] = FALSE
       /\ value.disabledMap[fields[i].name] = TRUE

\* what a computation without memo cells returns for these arguments
FreshValue(s, f, o) ==
  LET t == detectSchemaType(s)
      uf == Merge(f, o)
  IN  resolveValue(extractFields(t, s), uf, transformSchema(t, s, uf))

\* C4: the result of every render equals the fresh computation for that
\* render's arguments.
C4_NeverStale == mounted => value = FreshValue(schema, flags, overrideFlags)

C7_ReadOnlyRule ==
  mounted =>
    \A i \in 1..Len(fields) :
      value.readOnlyMap[fields[i].name] =
        IF fields[i].readonlyFlag = None THEN FALSE
        ELSE MergedValue(fields[i].readonlyFlag) \notin Falsy

Retained(n) == value.schema.shape[CHOOSE i \in 1..Len(value.schema.shape) :
                                    value.schema.shape[i].name = n]

\* C9: in both dialects a retained field that declares a requiredFlag is
\* required when the merged flag value is truthy, optional when it is falsy
\* and not nil, and keeps its original state when the value is nil.
C9_RequiredToggle ==
  (mounted /\ schemaType \in Dialects) =>
    \A i \in 1..Len(schema.shape) :
      LET fd == schema.shape[i]
      IN  (fd.name \in NamesIn(value.schema.shape) /\ fd.meta.requiredFlag # None) =>
            Retained(fd.name).optional =
              IF MergedValue(fd.meta.requiredFlag) \in Nil THEN fd.optional
              ELSE MergedValue(fd.meta.requiredFlag) \in Falsy

\* C10: in both dialects a retained field that declares a defaultValueFlag
\* and supports a default carries the merged flag value as its default when
\* that value is not nil, and its original default when it is nil.
C10_DefaultOverride ==
  (mounted /\ schemaType \in Dialects) =>
    \A i \in 1..Len(schema.shape) :
      LET fd == schema.shape[i]
      IN  (/\ fd.name \in NamesIn(value.schema.shape)
           /\ fd.meta.defaultValueFlag # None
           /\ "default" \in fd.ops) =>
            Retained(fd.name).default =
              IF MergedValue(fd.meta.defaultValueFlag) \in Nil THEN fd.default
              ELSE MergedValue(fd.meta.defaultValueFlag)

\* the caller's field definition of this name in the latest schema argument
Original(n) == schema.shape[CHOOSE i \in 1..Len(schema.shape) : schema.shape[i].name = n]

\* C11: the caller's schema is never changed: every field object of the
\* returned schema that is one of the caller's own objects (not a clone or a
\* wrapper) still has the required/optional state, default and metadata the
\* caller gave it, and the caller's objects are a subset of the input's.
C11_InputUnchanged ==
  mounted =>
    \A i \in 1..Len(value.schema.shape) :
      LET t == value.schema.shape[i]
      IN  t.ident = "orig" =>
            /\ t.name \in NamesIn(schema.shape)
            /\ t = Original(t.name)

\* a render changed a field's required/optional state, on a new object, beside a field passed through as the caller's own object
C11_Witness ==
  /\ mounted
  /\ schemaType = "zod"
  /\ \E i, j \in 1..Len(value.schema.shape) :
       LET t == value.schema.shape[i]
           u == value.schema.shape[j]
       IN  /\ t.ident = "new"
           /\ t.optional # Original(t.name).optional
           /\ u.ident = "orig"
           /\ u = Original(u.name)

\* C12: for a schema of neither dialect the metadata list and all maps are
\* empty and the returned schema is the input schema.
C12_UnknownPassthrough ==
  (mounted /\ ~schema.zodObject /\ ~(schema.describe /\ schema.fieldsProp)) =>
    /\ schemaType = "undefined"
    /\ fields = << >>
    /\ DOMAIN value.visibilityMap = {}
    /\ DOMAIN value.disabledMap = {}
    /\ DOMAIN value.readOnlyMap = {}
    /\ DOMAIN value.requiredMap = {}
    /\ DOMAIN value.defaultValueMap = {}
    /\ value.schema = schema

\* an object of neither dialect that has fields, rendered after a zod schema,
\* comes back untouched with empty maps
C12_Witness ==
  /\ calls = 2
  /\ schemaType = "undefined"
  /\ Len(schema.shape) > 0
  /\ fields = << >>
  /\ value.schema = schema
  /\ DOMAIN value.visibilityMap = {}

\* flag name k is a key of neither flags nor overrideFlags of the latest render
AbsentKey(k) ==
  /\ flags[k] = NoKey
  /\ overrideFlags = Absent \/ overrideFlags[1][k] = NoKey

\* the aspects decided by the transformer when the flag name is absent: a
\* field is retained and keeps its original required/optional state
AbsentKeepsSchema ==
  schemaType \in Dialects =>
    \A i \in 1..Len(schema.shape) :
      LET fd == schema.shape[i]
      IN  /\ (fd.meta.omitFlag # None /\ AbsentKey(fd.meta.omitFlag)) =>
               fd.name \in NamesIn(value.schema.shape)
          /\ (/\ fd.meta.requiredFlag # None /\ AbsentKey(fd.meta.requiredFlag)
              /\ fd.name \in NamesIn(value.schema.shape)) =>
               Retained(fd.name).optional = fd.optional

\* the disabled and read-only entries of the metadata list when the flag
\* name is absent: enabled and editable
AbsentKeepsEditable ==
  \A i \in 1..Len(fields) :
    LET fd == fields[i]
    IN  /\ (fd.disabledFlag # None /\ AbsentKey(fd.disabledFlag)) =>
             value.disabledMap[fd.name] = FALSE
        /\ (fd.readonlyFlag # None /\ AbsentKey(fd.readonlyFlag)) =>
             value.readOnlyMap[fd.name] = FALSE

C14_MemoStable ==
  mounted =>
    \E r \in {Render(schema, flags, overrideFlags, TRUE, TRUE, TRUE)} :
      /\ r.stages = {}
      /\ ~r.recomputed
      /\ r.value = value
      /\ r.transformedSchema = transformedSchema
      /\ r.fields = fields
      /\ r.updatedFlags = updatedFlags

\* a second render of a dialect schema with overrides that computed nothing
C14_Witness ==
  /\ calls = 2
  /\ ~recomputed
  /\ schemaType \in Dialects
  /\ overrideFlags # Absent

\* C15: when the schema a render returned is passed back with the same merged
\* flags, the returned schema has the same field names: nothing that the
\* first transformation retained is omitted by the second.
C15_OmissionIdempotent ==
  [][(/\ mounted
      /\ schemaType \in Dialects
      /\ schema' = value.schema
      /\ SpreadObject(flags', overrideFlags') = SpreadObject(flags, overrideFlags))
     => NamesIn(value'.schema.shape) = NamesIn(value.schema.shape)]_vars

\* the first render omitted a field and retained another; the second render,
\* given the first one's schema, retained exactly the same fields
C15_Witness ==
  /\ Len(trace[1]) = 2
  /\ schemaType \in Dialects
  /\ schema = trace[1][2].schema
  /\ NamesIn(schema.shape) # {}
  /\ NamesIn(schema.shape) # NamesIn(trace[1][1].schema.shape)
  /\ NamesIn(value.schema.shape) = NamesIn(schema.shape)

\* the field definition declares none of the six control flags
NoControl(fd) ==
  \A k \in {"visibilityFlag", "disabledFlag", "readonlyFlag", "requiredFlag",
            "omitFlag", "defaultValueFlag"} : fd.meta[k] = None

RECURSIVE Isolated(_, _)
Isolated(c, h) ==
  IF h = << >> THEN c
  ELSE Isolated(RenderOf(c, Head(h).schema, Head(h).flags, Head(h).overrideFlags,
                         FALSE, FALSE, FALSE),
                Tail(h))

\* C17: however the renders of two instances interleave, the result each
\* instance holds is the result of its own renders run in isolation.
C17_InstancesIndependent ==
  (Len(trace[1]) = calls /\ Len(trace[2]) = peer.calls) =>
    /\ value = Isolated(InitCells, trace[1]).value
    /\ peer.value = Isolated(InitCells, trace[2]).value

\* both instances were rendered twice, ending with different schemas and
\* different flags
C17_Witness ==
  /\ Len(trace[1]) = 2 /\ Len(trace[2]) = 2
  /\ calls = 2 /\ peer.calls = 2
  /\ schema # peer.schema
  /\ flags # peer.flags
  /\ trace[1][1].schema = peer.schema
  /\ value # peer.value
  /\ peer.value = Isolated(InitCells, trace[2]).value

\* C18: as the README states, a field that declares an omitFlag is included
\* when the merged flag value is true or undefined and omitted when it is
\* false.
C18_ReadmeOmitRule ==
  (mounted /\ schemaType \in Dialects) =>
    \A i \in 1..Len(schema.shape) :
      LET fd == schema.shape[i]
      IN  fd.meta.omitFlag # None =>
            /\ MergedValue(fd.meta.omitFlag) \in {"true", "undefined"} =>
                 fd.name \in NamesIn(value.schema.shape)
            /\ MergedValue(fd.meta.omitFlag) = "false" =>
                 fd.name \notin NamesIn(value.schema.shape)

\* C19: as the README's Meta Properties state, a field whose metadata has
\* the key `flag` is visible when that flag is true and hidden when it is
\* false.
C19_ReadmeFlagKey ==
  mounted =>
    \A i \in 1..Len(schema.shape) :
      LET fd == schema.shape[i]
      IN  (fd.meta.flag # None /\ fd.name \in DOMAIN value.visibilityMap) =>
            /\ MergedValue(fd.meta.flag) = "true" => value.visibilityMap[fd.name] = TRUE
            /\ MergedValue(fd.meta.flag) = "false" => value.visibilityMap[fd.name] = FALSE

\* flag name k is an own key of the override object of the latest render
InOverride(k) == overrideFlags # Absent /\ overrideFlags[1][k] # NoKey

\* C20: the merged flags have the keys of flags and of overrideFlags; a key of
\* overrideFlags has the override's value, be it undefined, null or false;
\* any other key has the base value.
C20_MergeRule ==
  mounted =>
    \A k \in FlagNames :
      /\ InOverride(k) => updatedFlags[k] = overrideFlags[1][k]
      /\ ~InOverride(k) => updatedFlags[k] = flags[k]
      /\ updatedFlags[k] = NoKey <=> (flags[k] = NoKey /\ ~InOverride(k))

\* an undefined override masks a truthy base value, beside a key that only
\* the base has
C20_Witness ==
  /\ mounted
  /\ flags["f1"] = "true" /\ InOverride("f1") /\ overrideFlags[1]["f1"] = undefined
  /\ updatedFlags["f1"] = undefined
  /\ flags["f2"] = "false" /\ ~InOverride("f2")
  /\ updatedFlags["f2"] = "false"

\* the field names of a shape, in declaration order
NameSeq(sh) == [i \in 1..Len(sh) |-> sh[i].name]

\* the field declares an omitFlag whose merged value is truthy
OmitDue(fd) == fd.meta.omitFlag # None /\ MergedValue(fd.meta.omitFlag) \notin Falsy

\* C21: the names of the transformed schema are the names of the input schema
\* without the omitted ones, each once and in the input's order.
C21_RetainedInOrder ==
  (mounted /\ schemaType \in Dialects) =>
    NameSeq(value.schema.shape) =
      NameSeq(SelectSeq(schema.shape, LAMBDA fd : ~OmitDue(fd)))

\* a three-field schema lost its last field and kept the other two in order
C21_Witness ==
  /\ mounted
  /\ schemaType \in Dialects
  /\ Len(schema.shape) = 3
  /\ OmitDue(schema.shape[3])
  /\ NameSeq(value.schema.shape) = << schema.shape[1].name, schema.shape[2].name >>

\* the field's metadata triggers no change: every control flag it declares is
\* absent from the flags of the latest render
NoChangeDue(fd) ==
  \A k \in {"visibilityFlag", "disabledFlag", "readonlyFlag", "requiredFlag",
            "omitFlag", "defaultValueFlag"} :
    fd.meta[k] # None => AbsentKey(fd.meta[k])

\* C22 as stated: in both dialects a retained field whose metadata triggers
\* no change is, in the transformed schema, the very object of the input.
C22_SameObject ==
  (mounted /\ schemaType \in Dialects) =>
    \A i \in 1..Len(schema.shape) :
      LET fd == schema.shape[i]
      IN  (NoChangeDue(fd) /\ fd.name \in NamesIn(value.schema.shape)) =>
            Retained(fd.name) = fd

\* C22 amended: such a field is the very object of the input in a zod schema
\* and, in a yup schema, a clone with the same required/optional state,
\* default, metadata and operations.
C22_SameObjectOrClone ==
  (mounted /\ schemaType \in Dialects) =>
    \A i \in 1..Len(schema.shape) :
      LET fd == schema.shape[i]
      IN  (NoChangeDue(fd) /\ fd.name \in NamesIn(value.schema.shape)) =>
            /\ schemaType = "zod" => Retained(fd.name) = fd
            /\ schemaType = "yup" =>
                 /\ Retained(fd.name).ident = "new"
                 /\ Retained(fd.name) = [fd EXCEPT !.ident = "new"]

\* a yup schema rendered without flags: a flagged field and an unflagged one
\* both come back as clones
C22_Witness ==
  /\ mounted
  /\ schemaType = "yup"
  /\ AbsentKey("f1") /\ AbsentKey("f2")
  /\ \E i, j \in 1..Len(schema.shape) :
       /\ schema.shape[i].meta = NoMeta
       /\ schema.shape[j].meta.requiredFlag # None
       /\ Retained(schema.shape[i].name) = [schema.shape[i] EXCEPT !.ident = "new"]
       /\ Retained(schema.shape[j].name) = [schema.shape[j] EXCEPT !.ident = "new"]

\* the field declares a defaultValueFlag whose merged value is set, on a type
\* without the default operation
DefaultUnsupported(fd) ==
  /\ fd.meta.defaultValueFlag # None
  /\ MergedValue(fd.meta.defaultValueFlag) \notin Nil
  /\ "default" \notin fd.ops

C24_DetectRule ==
  mounted =>
    /\ schema.zodObject => schemaType = "zod"
    /\ ~schema.zodObject =>
         /\ schemaType = "yup" <=>
              (schema.kind = "object" /\ schema.fieldsProp /\ schema.describe)
         /\ schemaType # "yup" => schemaType = "undefined"

\* a zod object that also has `fields` and `describe` was detected as zod
C24_Witness ==
  /\ mounted
  /\ schema.zodObject /\ schema.fieldsProp /\ schema.describe
  /\ schemaType = "zod"

\* C25: after a first render the metadata list has one record per field of
\* the schema, in the schema's order, no two with the same name, whatever
\* the flags are.
C25_OneRecordPerField ==
  (mounted /\ calls = 1 /\ schemaType \in Dialects) =>
    /\ NameSeq(fields) = NameSeq(schema.shape)
    /\ \A i, j \in 1..Len(fields) : fields[i].name = fields[j].name => i = j

\* a yup schema of a field without .meta and a flagged field, rendered with
\* flags set: two records, in order
C25_Witness ==
  /\ mounted /\ calls = 1
  /\ schemaType = "yup"
  /\ Len(schema.shape) = 2
  /\ "meta" \notin schema.shape[1].ops
  /\ schema.shape[2].meta.requiredFlag # None
  /\ MergedValue("f1") = "false"
  /\ NameSeq(fields) = << "a", "b" >>

\* the schema argument of the latest call of the first instance
Attempted == trace[1][Len(trace[1])].schema

\* C26: a field without a meta operation gets a record with every flag
\* attribute unset, is retained unmodified, and makes no call raise.
C26_NoMetaTolerated ==
  /\ (mounted /\ calls = 1 /\ schemaType \in Dialects) =>
       \A i \in 1..Len(schema.shape) :
         "meta" \notin schema.shape[i].ops =>
           /\ \A k \in DOMAIN fields[i] \ {"name"} : fields[i][k] = None
           /\ schema.shape[i].name \in NamesIn(value.schema.shape)
           /\ Retained(schema.shape[i].name).optional = schema.shape[i].optional
           /\ Retained(schema.shape[i].name).default = schema.shape[i].default
  /\ (Len(trace[1]) = calls /\ calls > 0) =>
       ~(raised /\ \E i \in 1..Len(Attempted.shape) : "meta" \notin Attempted.shape[i].ops)

\* C27: the two dialects coerce flag values alike: for the fields and merged
\* flags of the latest render the zod and the yup transformer retain the same
\* fields, each with the same required/optional state.
C27_DialectsAgree ==
  (mounted /\ schemaType \in Dialects) =>
    \E z \in {transformZodSchemaWithValues(ZodObject(schema.shape), updatedFlags)},
       y \in {transformYupSchemaWithValues(YupObject(schema.shape), updatedFlags)} :
      y # TypeError =>
        /\ NameSeq(z.shape) = NameSeq(y.shape)
        /\ \A i \in 1..Len(z.shape) : z.shape[i].optional = y.shape[i].optional

\* C28: when a call is followed by a call with the same schema, a field that
\* the first call's result lacks and whose omit flag is falsy or absent in
\* the second call's merged flags is in the second call's result.
C28_OmissionNotSticky ==
  [][(mounted /\ schemaType \in Dialects /\ schema' = schema /\ ~raised')
     => \A i \in 1..Len(schema.shape) :
          LET fd == schema.shape[i]
          IN  (/\ fd.name \notin NamesIn(value.schema.shape)
               /\ fd.meta.omitFlag # None
               /\ SpreadValue(flags', overrideFlags', fd.meta.omitFlag) \in Falsy)
              => fd.name \in NamesIn(value'.schema.shape)]_vars

\* the first call omitted a field under a true flag; the second call, same
\* schema and no flags, returned it
C28_Witness ==
  /\ Len(trace[1]) = 2 /\ calls = 2
  /\ trace[1][1].schema = schema
  /\ trace[1][1].flags["f2"] = "true"
  /\ AbsentKey("f2")
  /\ \E i \in 1..Len(schema.shape) :
       /\ schema.shape[i].meta.omitFlag = "f2"
       /\ schema.shape[i].name \in NamesIn(value.schema.shape)

\* C29: for every retained field that declares a requiredFlag whose merged
\* value is not nil, requiredMap is true exactly when the field is required
\* in the returned schema.
C29_RequiredMapAgrees ==
  (mounted /\ schemaType \in Dialects) =>
    \A i \in 1..Len(schema.shape) :
      LET fd == schema.shape[i]
      IN  (/\ fd.meta.requiredFlag # None
           /\ MergedValue(fd.meta.requiredFlag) \notin Nil
           /\ fd.name \in NamesIn(value.schema.shape)
           /\ fd.name \in DOMAIN value.requiredMap) =>
            value.requiredMap[fd.name] = ~Retained(fd.name).optional

\* the flags that some field of the latest schema names as its omitFlag,
\* requiredFlag or defaultValueFlag
SchemaFlags ==
  {schema.shape[i].meta[k] :
     i \in 1..Len(schema.shape), k \in {"omitFlag", "requiredFlag", "defaultValueFlag"}}

\* the names and the required/optional state and default of each field
Structure(sh) ==
  [i \in 1..Len(sh) |-> << sh[i].name, sh[i].optional, sh[i].default >>]

\* C30: changing the value of a flag that no field names as omitFlag,
\* requiredFlag or defaultValueFlag leaves the transformed schema's fields,
\* required/optional states and defaults as they are.
C30_UiFlagsIrrelevant ==
  (mounted /\ schemaType \in Dialects) =>
    \A k \in FlagNames \ SchemaFlags : \A c \in Cell :
      Structure(transformSchema(schemaType, schema, [updatedFlags EXCEPT ![k] = c]).shape)
        = Structure(value.schema.shape)

\* a schema that names f1 as a visibilityFlag only, rendered with f1 false:
\* the hidden field is retained
C30_Witness ==
  /\ mounted /\ calls = 1
  /\ schemaType = "zod"
  /\ Len(schema.shape) = 2
  /\ schema.shape[1].meta.visibilityFlag = "f1"
  /\ SchemaFlags = {None}
  /\ MergedValue("f1") = "false"
  /\ value.visibilityMap["a"] = FALSE
  /\ NameSeq(value.schema.shape) = << "a", "b" >>

====
